---- MODULE Spec2Model ----
(***************************************************************************)
(* Model of librustc/middle/region.rs: the ScopeTree, its recording        *)
(* operations and its ancestor queries.                                    *)
(*                                                                         *)
(* Option<T> is modelled as a tuple: None is <<>>, Some(x) is x itself     *)
(* when x is a non-empty tuple (a parent_map entry <<parent, depth>>) and  *)
(* <<x>> otherwise.                                                        *)
(***************************************************************************)
EXTENDS Integers, FiniteSets, Sequences, TLC

\* ---------------------------------------------------------------- bounds
MaxId == 1            \* item-local ids are 0..MaxId
MaxKinds == 3         \* the scopes of the analysed body use the first MaxKinds kinds
MaxDepth == 2         \* ScopeDepth arguments are 0..MaxDepth
MaxCalls == 3         \* recording calls made by an arbitrary client
MaxScopes == 4        \* parent_map entries recorded by the walker
MaxExprCount == 2     \* expr_and_pat_count of a YieldData is 1..MaxExprCount
MaxSpan == 1          \* spans of a YieldData are 0..MaxSpan
MaxYields == 3        \* suspension points recorded

\* ----------------------------------------------------------- value types
ItemLocalId == 0..MaxId

Node == [tag |-> "Node"]
CallSite == [tag |-> "CallSite"]
Arguments == [tag |-> "Arguments"]
Destruction == [tag |-> "Destruction"]
Remainder(fsi) == [tag |-> "Remainder", first_statement_index |-> fsi]

\* enum ScopeData, its variants numbered: those the ScopeTree's code tells apart
\* first, then Arguments and the Remainder(first_statement_index) family
ScopeDataOf(k) ==
    CASE k = 1 -> Node
      [] k = 2 -> Destruction
      [] k = 3 -> CallSite
      [] k = 4 -> Arguments
      [] OTHER -> Remainder(k - 5)

ScopeData == {ScopeDataOf(k) : k \in 1..MaxKinds}

Scope == [id : ItemLocalId, data : ScopeData]

item_local_id(s) == s.id

ScopeDepth == 0..MaxDepth

None == <<>>
Some(x) == <<x>>

YieldData == [span : 0..MaxSpan, expr_and_pat_count : 1..MaxExprCount]

\* ----------------------------------------------------------------- state
VARIABLES
    parent_map,          \* Scope -> None | <<parent Scope, ScopeDepth>>
    var_map,             \* ItemLocalId -> None | Some(Scope)
    destruction_scopes,  \* ItemLocalId -> None | Some(Scope)
    rvalue_scopes,       \* ItemLocalId -> None (no entry) | Some(Option<Scope>)
    closure_tree,        \* ItemLocalId -> None | Some(ItemLocalId)
    yield_in_scope,      \* Scope -> None | Some(YieldData)
    panicked,            \* an assert! of a recording operation has fired
    call,                \* the last recording call made on the tree
    ncalls,              \* number of calls made by the arbitrary client
    in_contract          \* every record_scope_parent call so far kept the walker's contract

vars == <<parent_map, var_map, destruction_scopes, rvalue_scopes, closure_tree,
          yield_in_scope, panicked, call, ncalls, in_contract>>

\* #[derive(Default)]: every map starts empty
Init ==
    /\ parent_map = [s \in Scope |-> None]
    /\ var_map = [i \in ItemLocalId |-> None]
    /\ destruction_scopes = [i \in ItemLocalId |-> None]
    /\ rvalue_scopes = [i \in ItemLocalId |-> None]
    /\ closure_tree = [i \in ItemLocalId |-> None]
    /\ yield_in_scope = [s \in Scope |-> None]
    /\ panicked = FALSE
    /\ call = [op |-> "default"]
    /\ ncalls = 0
    /\ in_contract = TRUE

\* ------------------------------------------------------------- recording
\* The arguments the region-resolution walker passes: the child was not
\* recorded before (it has no entry and is no recorded scope's parent), the
\* parent is the scope being visited and the depth is that parent's depth:
\* 1 for a root, one more than the parent's own entry otherwise.
WalkerContract(child, parent) ==
    /\ parent_map[child] = None
    /\ \A s \in Scope : parent_map[s] # None => parent_map[s][1] # child
    /\ parent # None =>
          /\ parent[1] # child
          /\ parent[2] = IF parent_map[parent[1]] = None
                         THEN 1
                         ELSE parent_map[parent[1]][2] + 1

\* record_scope_parent with the child itself stored as the enclosing scope
record_scope_parent_self(child, parent) ==
    LET prev == parent_map[child]
        fails == parent # None /\ prev # None
    IN  /\ parent_map' = IF parent # None
                         THEN [parent_map EXCEPT ![child] = <<child, parent[2]>>]
                         ELSE parent_map
        /\ panicked' = fails
        /\ destruction_scopes' =
              IF ~fails /\ child.data = Destruction
              THEN [destruction_scopes EXCEPT ![item_local_id(child)] = Some(child)]
              ELSE destruction_scopes

\* record_scope_parent storing the child's own depth, one more than the parent's
record_scope_parent_child_depth(child, parent) ==
    LET prev == parent_map[child]
        fails == parent # None /\ prev # None
    IN  /\ parent_map' = IF parent # None
                         THEN [parent_map EXCEPT ![child] = <<parent[1], parent[2] + 1>>]
                         ELSE parent_map
        /\ panicked' = fails
        /\ destruction_scopes' =
              IF ~fails /\ child.data = Destruction
              THEN [destruction_scopes EXCEPT ![item_local_id(child)] = Some(child)]
              ELSE destruction_scopes

\* record_scope_parent without assert!(prev.is_none())
record_scope_parent_no_assert(child, parent) ==
    /\ parent_map' = IF parent # None
                     THEN [parent_map EXCEPT ![child] = parent]
                     ELSE parent_map
    /\ panicked' = FALSE
    /\ destruction_scopes' =
          IF child.data = Destruction
          THEN [destruction_scopes EXCEPT ![item_local_id(child)] = Some(child)]
          ELSE destruction_scopes

\* record_scope_parent registering a Destruction scope only inside `if let Some(p)`
record_scope_parent_destruction_inside_if(child, parent) ==
    LET prev == parent_map[child]
        fails == parent # None /\ prev # None
    IN  /\ parent_map' = IF parent # None
                         THEN [parent_map EXCEPT ![child] = parent]
                         ELSE parent_map
        /\ panicked' = fails
        /\ destruction_scopes' =
              IF ~fails /\ parent # None /\ child.data = Destruction
              THEN [destruction_scopes EXCEPT ![item_local_id(child)] = Some(child)]
              ELSE destruction_scopes

\* record_scope_parent removing the child's entry when it is given no parent
record_scope_parent_removes_on_none(child, parent) ==
    LET prev == parent_map[child]
        fails == parent # None /\ prev # None
    IN  /\ parent_map' = [parent_map EXCEPT ![child] = parent]
        /\ panicked' = fails
        /\ destruction_scopes' =
              IF ~fails /\ child.data = Destruction
              THEN [destruction_scopes EXCEPT ![item_local_id(child)] = Some(child)]
              ELSE destruction_scopes

\* pub fn record_scope_parent(&mut self, child, parent: Option<(Scope, ScopeDepth)>)
record_scope_parent(child, parent) ==
    LET prev == parent_map[child]
        fails == parent # None /\ prev # None       \* assert!(prev.is_none())
    IN  /\ parent_map' = IF parent # None
                         THEN [parent_map EXCEPT ![child] = parent]
                         ELSE parent_map
        /\ panicked' = fails
        /\ destruction_scopes' =
              IF ~fails /\ child.data = Destruction
              THEN [destruction_scopes EXCEPT ![item_local_id(child)] = Some(child)]
              ELSE destruction_scopes

ParentArg == {None} \cup (Scope \X ScopeDepth)

RecordScopeParent ==
    /\ ~panicked
    /\ ncalls < MaxCalls
    /\ \E child \in Scope, parent \in ParentArg :
          /\ record_scope_parent(child, parent)
          /\ call' = [op |-> "record_scope_parent", child |-> child, parent |-> parent]
          /\ in_contract' = (in_contract /\ WalkerContract(child, parent))
    /\ ncalls' = ncalls + 1
    /\ UNCHANGED <<var_map, rvalue_scopes, closure_tree, yield_in_scope>>

\* The walker's calls: record_scope_parent with arguments that keep its contract.
WalkerRecordScopeParent ==
    /\ ~panicked
    /\ Cardinality({s \in Scope : parent_map[s] # None}) < MaxScopes
    /\ \E child \in Scope, parent \in {None} \cup (Scope \X (1..MaxScopes)) :
          /\ WalkerContract(child, parent)
          /\ record_scope_parent(child, parent)
          /\ call' = [op |-> "record_scope_parent", child |-> child, parent |-> parent]
    /\ UNCHANGED <<var_map, rvalue_scopes, closure_tree, yield_in_scope, ncalls, in_contract>>

\* pub fn record_closure_parent(&mut self, sub_closure, sup_closure)
record_closure_parent(sub_closure, sup_closure) ==
    LET previous == closure_tree[sub_closure]
    IN  IF sub_closure = sup_closure              \* assert!(sub_closure != sup_closure)
        THEN panicked' = TRUE /\ closure_tree' = closure_tree
        ELSE /\ closure_tree' = [closure_tree EXCEPT ![sub_closure] = Some(sup_closure)]
             /\ panicked' = (previous # None)     \* assert!(previous.is_none())

RecordClosureParent ==
    /\ ~panicked
    /\ ncalls < MaxCalls
    /\ \E sub_closure \in ItemLocalId, sup_closure \in ItemLocalId :
          /\ record_closure_parent(sub_closure, sup_closure)
          /\ call' = [op |-> "record_closure_parent", sub_closure |-> sub_closure,
                      sup_closure |-> sup_closure]
    /\ ncalls' = ncalls + 1
    /\ UNCHANGED <<parent_map, var_map, destruction_scopes, rvalue_scopes,
                   yield_in_scope, in_contract>>

\* record_var_scope without assert!(var != lifetime.item_local_id())
record_var_scope_no_assert(var, lifetime) ==
    panicked' = FALSE /\ var_map' = [var_map EXCEPT ![var] = Some(lifetime)]

\* pub fn record_var_scope(&mut self, var, lifetime: Scope)
record_var_scope(var, lifetime) ==
    IF var = item_local_id(lifetime)              \* assert!(var != lifetime.item_local_id())
    THEN panicked' = TRUE /\ var_map' = var_map
    ELSE panicked' = FALSE /\ var_map' = [var_map EXCEPT ![var] = Some(lifetime)]

RecordVarScope ==
    /\ ~panicked
    /\ ncalls < MaxCalls
    /\ \E var \in ItemLocalId, lifetime \in Scope :
          /\ record_var_scope(var, lifetime)
          /\ call' = [op |-> "record_var_scope", var |-> var, lifetime |-> lifetime]
    /\ ncalls' = ncalls + 1
    /\ UNCHANGED <<parent_map, destruction_scopes, rvalue_scopes, closure_tree,
                   yield_in_scope, in_contract>>

\* pub fn record_rvalue_scope(&mut self, var, lifetime: Option<Scope>)
record_rvalue_scope(var, lifetime) ==
    IF lifetime # None /\ var = item_local_id(lifetime[1])
    THEN panicked' = TRUE /\ rvalue_scopes' = rvalue_scopes
    ELSE panicked' = FALSE /\ rvalue_scopes' = [rvalue_scopes EXCEPT ![var] = Some(lifetime)]

RecordRvalueScope ==
    /\ ~panicked
    /\ ncalls < MaxCalls
    /\ \E var \in ItemLocalId, lifetime \in {None} \cup {Some(s) : s \in Scope} :
          /\ record_rvalue_scope(var, lifetime)
          /\ call' = [op |-> "record_rvalue_scope", var |-> var, lifetime |-> lifetime]
    /\ ncalls' = ncalls + 1
    /\ UNCHANGED <<parent_map, var_map, destruction_scopes, closure_tree,
                   yield_in_scope, in_contract>>

\* record_suspension_point as a plain insert
record_suspension_point_overwrite(scope, data) ==
    yield_in_scope' = [yield_in_scope EXCEPT ![scope] = Some(data)]

\* record_suspension_point(scope, data): the walker's update of yield_in_scope,
\* keeping the occurrence with the highest sequence index
record_suspension_point(scope, data) ==
    LET old == yield_in_scope[scope]
    IN  yield_in_scope' =
            IF old # None /\ old[1].expr_and_pat_count > data.expr_and_pat_count
            THEN yield_in_scope
            ELSE [yield_in_scope EXCEPT ![scope] = Some(data)]

RecordSuspensionPoint ==
    /\ ~panicked
    /\ ncalls < MaxYields
    /\ \E scope \in Scope, data \in YieldData :
          /\ record_suspension_point(scope, data)
          /\ call' = [op |-> "record_suspension_point", scope |-> scope, data |-> data]
    /\ ncalls' = ncalls + 1
    /\ UNCHANGED <<parent_map, var_map, destruction_scopes, rvalue_scopes, closure_tree,
                   panicked, in_contract>>

\* --------------------------------------------------------------- queries
\* The outcome of a query: it returns a value after `steps` moves along parent
\* links, an unwrap() or assert! in it panics, or its loop never ends.
Ret(v, n) == [tag |-> "ret", val |-> v, steps |-> n]
Panic(n) == [tag |-> "panic", steps |-> n]
Diverge == [tag |-> "diverge"]

\* A walk of one scope variable that has made this many moves has met some
\* scope twice and repeats for ever; two variables in lockstep, some pair.
WalkLimit == Cardinality(Scope)
LockstepLimit == Cardinality(Scope) * Cardinality(Scope)

\* pub fn opt_destruction_scope(&self, n) -> Option<Scope>
opt_destruction_scope(n) == destruction_scopes[n]

\* pub fn opt_encl_scope(&self, id: Scope) -> Option<Scope>
opt_encl_scope(id) ==
    IF parent_map[id] = None THEN None ELSE Some(parent_map[id][1])

\* pub fn var_scope(&self, var_id) -> Scope
var_scope(var_id) ==
    IF var_map[var_id] = None THEN Panic(0) ELSE Ret(var_map[var_id][1], 0)

\* pub fn yield_in_scope(&self, scope) -> Option<YieldData>
yield_in_scope_of(scope) == yield_in_scope[scope]

\* the loop of temporary_scope returning the Destruction scope it has found
RECURSIVE temporary_scope_loop_returns_parent(_, _)
temporary_scope_loop_returns_parent(id, n) ==
    IF parent_map[id] = None THEN Ret(None, n)
    ELSE LET p == parent_map[id][1]
         IN  IF p.data = Destruction THEN Ret(Some(p), n)
             ELSE IF n >= WalkLimit THEN Diverge
             ELSE temporary_scope_loop_returns_parent(p, n + 1)

\* the loop of temporary_scope, at scope `id` after n moves
RECURSIVE temporary_scope_loop(_, _)
temporary_scope_loop(id, n) ==
    IF parent_map[id] = None THEN Ret(None, n)
    ELSE LET p == parent_map[id][1]
         IN  IF p.data = Destruction THEN Ret(Some(id), n)
             ELSE IF n >= WalkLimit THEN Diverge
             ELSE temporary_scope_loop(p, n + 1)

\* temporary_scope taking an override of None for no override
temporary_scope_skips_none(expr_id) ==
    IF rvalue_scopes[expr_id] # None /\ rvalue_scopes[expr_id][1] # None
    THEN Ret(rvalue_scopes[expr_id][1], 0)
    ELSE temporary_scope_loop([id |-> expr_id, data |-> Node], 0)

\* pub fn temporary_scope(&self, expr_id) -> Option<Scope>
temporary_scope(expr_id) ==
    IF rvalue_scopes[expr_id] # None
    THEN Ret(rvalue_scopes[expr_id][1], 0)
    ELSE temporary_scope_loop([id |-> expr_id, data |-> Node], 0)

\* the loop of is_subscope_of looking for the parent before comparing
RECURSIVE is_subscope_of_loop_parent_first(_, _, _)
is_subscope_of_loop_parent_first(s, superscope, n) ==
    IF opt_encl_scope(s) = None THEN Ret(FALSE, n)
    ELSE IF superscope = s THEN Ret(TRUE, n)
    ELSE IF n >= WalkLimit THEN Diverge
    ELSE is_subscope_of_loop_parent_first(opt_encl_scope(s)[1], superscope, n + 1)

\* the loop of is_subscope_of going round again, not returning false, at a root
RECURSIVE is_subscope_of_loop_no_exit(_, _, _)
is_subscope_of_loop_no_exit(s, superscope, n) ==
    IF superscope = s THEN Ret(TRUE, n)
    ELSE IF n >= WalkLimit THEN Diverge
    ELSE IF opt_encl_scope(s) = None
    THEN is_subscope_of_loop_no_exit(s, superscope, n + 1)
    ELSE is_subscope_of_loop_no_exit(opt_encl_scope(s)[1], superscope, n + 1)

\* the loop of is_subscope_of, at scope s after n moves
RECURSIVE is_subscope_of_loop(_, _, _)
is_subscope_of_loop(s, superscope, n) ==
    IF superscope = s THEN Ret(TRUE, n)
    ELSE IF opt_encl_scope(s) = None THEN Ret(FALSE, n)
    ELSE IF n >= WalkLimit THEN Diverge
    ELSE is_subscope_of_loop(opt_encl_scope(s)[1], superscope, n + 1)

\* pub fn is_subscope_of(&self, subscope, superscope) -> bool
is_subscope_of(subscope, superscope) == is_subscope_of_loop(subscope, superscope, 0)

\* pub fn scopes_intersect(&self, scope1, scope2) -> bool
scopes_intersect(scope1, scope2) ==
    LET r1 == is_subscope_of(scope1, scope2)
    IN  IF r1.tag # "ret" THEN r1
        ELSE IF r1.val THEN r1
        ELSE LET r2 == is_subscope_of(scope2, scope1)
             IN  IF r2.tag # "ret" THEN r2 ELSE Ret(r2.val, r1.steps + r2.steps)

\* the loop of containing_body moving to the parent before looking at the kind
RECURSIVE containing_body_loop_parent_first(_, _)
containing_body_loop_parent_first(scope, n) ==
    IF opt_encl_scope(scope) = None THEN Ret(None, n)
    ELSE IF opt_encl_scope(scope)[1].data = CallSite
    THEN Ret(Some(item_local_id(opt_encl_scope(scope)[1])), n + 1)
    ELSE IF n >= WalkLimit THEN Diverge
    ELSE containing_body_loop_parent_first(opt_encl_scope(scope)[1], n + 1)

\* the loop of containing_body, at `scope` after n moves
RECURSIVE containing_body_loop(_, _)
containing_body_loop(scope, n) ==
    IF scope.data = CallSite THEN Ret(Some(item_local_id(scope)), n)
    ELSE IF opt_encl_scope(scope) = None THEN Ret(None, n)
    ELSE IF n >= WalkLimit THEN Diverge
    ELSE containing_body_loop(opt_encl_scope(scope)[1], n + 1)

\* pub fn containing_body(&self, scope) -> Option<ItemLocalId>
containing_body(scope) == containing_body_loop(scope, 0)

\* the loop `for _ in 0..=count`, one move too many
RECURSIVE move_up_inclusive(_, _, _)
move_up_inclusive(a, count, n) ==
    IF parent_map[a] = None THEN Panic(n)
    ELSE IF count = 0 THEN Ret(parent_map[a][1], n + 1)
    ELSE move_up_inclusive(parent_map[a][1], count - 1, n + 1)

\* for _ in 0..count { a = self.parent_map.get(&a).unwrap().0; }
RECURSIVE move_up(_, _, _)
move_up(a, count, n) ==
    IF count = 0 THEN Ret(a, n)
    ELSE IF parent_map[a] = None THEN Panic(n)
    ELSE move_up(parent_map[a][1], count - 1, n + 1)

\* the lockstep loop moving both scopes up before it compares them
RECURSIVE lockstep_parent_first(_, _, _, _)
lockstep_parent_first(a, b, n, k) ==
    IF parent_map[a] = None \/ parent_map[b] = None THEN Panic(n)
    ELSE IF parent_map[a][1] = parent_map[b][1] THEN Ret(parent_map[a][1], n + 2)
    ELSE IF k >= LockstepLimit THEN Diverge
    ELSE lockstep_parent_first(parent_map[a][1], parent_map[b][1], n + 2, k + 1)

\* while a != b { a = ...get(&a).unwrap().0; b = ...get(&b).unwrap().0; }
RECURSIVE lockstep(_, _, _, _)
lockstep(a, b, n, k) ==
    IF a = b THEN Ret(a, n)
    ELSE IF parent_map[a] = None \/ parent_map[b] = None THEN Panic(n)
    ELSE IF k >= LockstepLimit THEN Diverge
    ELSE lockstep(parent_map[a][1], parent_map[b][1], n + 2, k + 1)

\* nearest_common_ancestor without `b = parent_b` where b is the lower scope
nearest_common_ancestor_b_unmoved(scope_a, scope_b) ==
    IF scope_a = scope_b THEN Ret(scope_a, 0)
    ELSE IF parent_map[scope_a] = None THEN Ret(scope_a, 0)
    ELSE IF parent_map[scope_b] = None THEN Ret(scope_b, 0)
    ELSE LET parent_a == parent_map[scope_a][1]
             parent_a_depth == parent_map[scope_a][2]
             parent_b == parent_map[scope_b][1]
             parent_b_depth == parent_map[scope_b][2]
         IN  IF parent_a_depth > parent_b_depth
             THEN LET up == move_up(parent_a, parent_a_depth - parent_b_depth - 1, 1)
                  IN  IF up.tag # "ret" THEN up
                      ELSE lockstep(up.val, scope_b, up.steps, 0)
             ELSE IF parent_b_depth > parent_a_depth
             THEN LET up == move_up(scope_b, parent_b_depth - parent_a_depth - 1, 0)
                  IN  IF up.tag # "ret" THEN up
                      ELSE lockstep(scope_a, up.val, up.steps, 0)
             ELSE IF parent_a_depth = 0
             THEN Panic(0)
             ELSE lockstep(parent_a, parent_b, 2, 0)

\* pub fn nearest_common_ancestor(&self, scope_a, scope_b) -> Scope
nearest_common_ancestor(scope_a, scope_b) ==
    IF scope_a = scope_b THEN Ret(scope_a, 0)
    ELSE IF parent_map[scope_a] = None THEN Ret(scope_a, 0)
    ELSE IF parent_map[scope_b] = None THEN Ret(scope_b, 0)
    ELSE LET parent_a == parent_map[scope_a][1]
             parent_a_depth == parent_map[scope_a][2]
             parent_b == parent_map[scope_b][1]
             parent_b_depth == parent_map[scope_b][2]
         IN  IF parent_a_depth > parent_b_depth
             THEN LET up == move_up(parent_a, parent_a_depth - parent_b_depth - 1, 1)
                  IN  IF up.tag # "ret" THEN up
                      ELSE lockstep(up.val, scope_b, up.steps, 0)
             ELSE IF parent_b_depth > parent_a_depth
             THEN LET up == move_up(parent_b, parent_b_depth - parent_a_depth - 1, 1)
                  IN  IF up.tag # "ret" THEN up
                      ELSE lockstep(scope_a, up.val, up.steps, 0)
             ELSE IF parent_a_depth = 0       \* assert!(parent_a_depth != 0)
             THEN Panic(0)
             ELSE lockstep(parent_a, parent_b, 2, 0)

\* ------------------------------------------------------- specifications
\* An arbitrary client of the recording API
Next ==
    \/ RecordScopeParent
    \/ RecordClosureParent
    \/ RecordVarScope
    \/ RecordRvalueScope

Spec == Init /\ [][Next]_vars

\* The tree as the region-resolution walker builds it
NextWalker == WalkerRecordScopeParent

SpecWalker == Init /\ [][NextWalker]_vars

\* The suspension points the walker records
NextYield == RecordSuspensionPoint

SpecYield == Init /\ [][NextYield]_vars

\* ---------------------------------------------------- tree vocabulary
HasParent(s) == parent_map[s] # None
ParentOf(s) == parent_map[s][1]
DepthOf(s) == parent_map[s][2]

\* the scopes one parent link above the scopes of S
Up(S) == {ParentOf(x) : x \in {y \in S : HasParent(y)}}

RECURSIVE UpClosure(_, _)
UpClosure(S, k) == IF k = 0 THEN S ELSE UpClosure(S \cup Up(S), k - 1)

\* the scopes reached from s by one or more parent links, and by zero or more
ProperSuperscopes(s) == UpClosure(Up({s}), Cardinality(Scope))
Superscopes(s) == {s} \cup ProperSuperscopes(s)

Acyclic == \A s \in Scope : s \notin ProperSuperscopes(s)

\* number of parent links from s to the root of its tree (in an acyclic map)
RECURSIVE DistanceToRoot(_, _)
DistanceToRoot(s, k) ==
    IF ~HasParent(s) \/ k = 0 THEN 0 ELSE 1 + DistanceToRoot(ParentOf(s), k - 1)

DepthsConsistent ==
    \A s \in Scope : HasParent(s) =>
        /\ HasParent(ParentOf(s)) => DepthOf(ParentOf(s)) = DepthOf(s) - 1
        /\ DepthOf(s) = DistanceToRoot(s, Cardinality(Scope))

\* the step just taken was a call of the named recording operation
Called(op) == ncalls' = ncalls + 1 /\ call'.op = op

\* ------------------------------------------------------------------ C3
\* C3 (as stated): after any sequence of successful record_scope_parent calls
\* the parent links have no cycle.
C3_ForestAfterAnyCalls == ~panicked => Acyclic

\* C3 (amended): the parent links have no cycle after any sequence of
\* successful record_scope_parent calls that each kept the walker's contract.
C3_ForestUnderContract == (in_contract /\ ~panicked) => Acyclic

C3_Witness ==
    /\ in_contract /\ ~panicked
    /\ \E s \in Scope : HasParent(s) /\ HasParent(ParentOf(s))

\* ------------------------------------------------------------------ C4
\* C4 (as stated): after any sequence of successful record_scope_parent calls
\* the depth recorded for a scope is one more than the depth recorded for its
\* parent and equals its distance from the root.
C4_DepthsAfterAnyCalls == ~panicked => DepthsConsistent

\* C4 (amended): the same, after calls that each kept the walker's contract.
C4_DepthsUnderContract == (in_contract /\ ~panicked) => DepthsConsistent

C4_Witness ==
    /\ in_contract /\ ~panicked
    /\ \E s \in Scope : HasParent(s) /\ HasParent(ParentOf(s)) /\ DepthOf(s) = 2

\* ------------------------------------------------------------------ C5
\* C5 (as stated): a record_scope_parent call for the child of the call before
\* it fails, whatever parents the two calls carry.
C5_SecondCallFails ==
    [][(/\ call.op = "record_scope_parent"
        /\ Called("record_scope_parent")
        /\ call'.child = call.child) => panicked']_vars

\* C5 (amended): a record_scope_parent call fails exactly when it carries a
\* parent and its child already has a recorded parent.
C5_FailsIffParentRecorded ==
    [][Called("record_scope_parent") =>
          (panicked' <=> (call'.parent # None /\ HasParent(call'.child)))]_vars

C5_Witness ==
    /\ panicked
    /\ call.op = "record_scope_parent"
    /\ call.parent # None

\* ------------------------------------------------------------------ C9
\* C9: recording a Destruction scope with id n makes opt_destruction_scope(n)
\* return that scope, no later recording changes an entry of
\* destruction_scopes, and recording a scope of another kind changes none.
C9_DestructionScopeRecorded ==
    [][/\ \A child \in Scope :
              (/\ Called("record_scope_parent")
               /\ call'.child = child
               /\ child.data = Destruction) =>
                  opt_destruction_scope(item_local_id(child))' = Some(child)
       /\ \A n \in ItemLocalId :
              opt_destruction_scope(n) # None =>
                  opt_destruction_scope(n)' = opt_destruction_scope(n)
       /\ (Called("record_scope_parent") /\ call'.child.data # Destruction) =>
              destruction_scopes' = destruction_scopes]_vars

C9_Witness ==
    /\ ncalls >= 2
    /\ call.op = "record_scope_parent"
    /\ call.child.data # Destruction
    /\ \E n \in ItemLocalId :
          opt_destruction_scope(n) = Some([id |-> n, data |-> Destruction])

\* ------------------------------------------------------------------ C2
\* two outcomes agree: both return the same value, both panic or both diverge
SameOutcome(x, y) == x.tag = y.tag /\ (x.tag = "ret" => x.val = y.val)

\* C2 (as stated): nearest_common_ancestor(a, b) and nearest_common_ancestor(b, a)
\* agree for all scopes a and b.
C2_Symmetric ==
    \A a \in Scope, b \in Scope :
        SameOutcome(nearest_common_ancestor(a, b), nearest_common_ancestor(b, a))

\* C2 (amended): they agree whenever a = b or one of a and b has a recorded
\* parent; two distinct scopes without a recorded parent each give the first
\* argument.
C2_SymmetricWhenRecorded ==
    \A a \in Scope, b \in Scope :
        IF a = b \/ HasParent(a) \/ HasParent(b)
        THEN SameOutcome(nearest_common_ancestor(a, b), nearest_common_ancestor(b, a))
        ELSE /\ nearest_common_ancestor(a, b) = Ret(a, 0)
             /\ nearest_common_ancestor(b, a) = Ret(b, 0)

C2_Witness ==
    \E a \in Scope, b \in Scope :
        /\ a # b /\ HasParent(a) /\ HasParent(b)
        /\ DepthOf(a) # DepthOf(b)
        /\ nearest_common_ancestor(a, b).tag = "ret"
        /\ nearest_common_ancestor(a, b).val \notin {a, b}

\* ------------------------------------------------------------------ C7
\* C7: a successful record_rvalue_scope(e, lifetime) makes temporary_scope(e)
\* return lifetime, also when lifetime is None and the Node scope of e has a
\* Destruction parent, and no other recording changes what temporary_scope
\* returns for an expression that has an override.
C7_OverrideRespected ==
    [][\A e \in ItemLocalId :
          /\ (Called("record_rvalue_scope") /\ call'.var = e /\ ~panicked') =>
                 temporary_scope(e)' = Ret(call'.lifetime, 0)
          /\ (rvalue_scopes[e] # None /\ ~Called("record_rvalue_scope")) =>
                 temporary_scope(e)' = temporary_scope(e)]_vars

C7_Witness ==
    \E e \in ItemLocalId :
        LET n == [id |-> e, data |-> Node]
        IN  /\ rvalue_scopes[e] = Some(None)
            /\ call.op = "record_scope_parent"
            /\ HasParent(n)
            /\ ParentOf(n).data = Destruction
            /\ temporary_scope(e) = Ret(None, 0)

\* ------------------------------------------------------------------ C1
\* a query returned TRUE
Yes(r) == r.tag = "ret" /\ r.val = TRUE

CommonSuperscopes(a, b) == Superscopes(a) \cap Superscopes(b)

\* nearest_common_ancestor(a, b) returns a superscope of a and of b, no
\* proper subscope of which is a superscope of both
ReturnsSmallestCommonSuperscope(a, b) ==
    LET r == nearest_common_ancestor(a, b)
    IN  /\ r.tag = "ret"
        /\ Yes(is_subscope_of(a, r.val))
        /\ Yes(is_subscope_of(b, r.val))
        /\ \A c \in Scope \ {r.val} :
              Yes(is_subscope_of(c, r.val)) =>
                  ~(Yes(is_subscope_of(a, c)) /\ Yes(is_subscope_of(b, c)))

\* C1 (as stated): for all scopes a and b nearest_common_ancestor(a, b)
\* returns the smallest common superscope of a and b.
C1_SmallestCommonSuperscope ==
    \A a \in Scope, b \in Scope : ReturnsSmallestCommonSuperscope(a, b)

\* C1 (amended): it does for all scopes a and b that have a common superscope,
\* in a tree recorded under the walker's contract.
C1_SmallestWhenCommonExists ==
    \A a \in Scope, b \in Scope :
        CommonSuperscopes(a, b) # {} => ReturnsSmallestCommonSuperscope(a, b)

C1_Witness ==
    \E a \in Scope, b \in Scope :
        /\ HasParent(a) /\ HasParent(b)
        /\ DepthOf(a) >= DepthOf(b) + 2
        /\ nearest_common_ancestor(a, b).tag = "ret"
        /\ nearest_common_ancestor(a, b).val \notin {a, b}
        /\ \E c \in Scope : ~HasParent(c) /\ nearest_common_ancestor(c, a) = Ret(c, 0)
                            /\ c \in Superscopes(a)

\* ------------------------------------------------------------------ C6
\* C6: is_subscope_of(sub, sup) returns true exactly when sup is sub or is
\* reached from sub along parent links, false otherwise; it is reflexive;
\* scopes_intersect(a, b) is true iff one of the two is a subscope of the other.
C6_SubscopeIsReachability ==
    /\ \A sub \in Scope, sup \in Scope :
          /\ is_subscope_of(sub, sup).tag = "ret"
          /\ is_subscope_of(sub, sup).val <=> sup \in Superscopes(sub)
    /\ \A s \in Scope : Yes(is_subscope_of(s, s))
    /\ \A a \in Scope, b \in Scope :
          /\ scopes_intersect(a, b).tag = "ret"
          /\ scopes_intersect(a, b).val <=>
                (Yes(is_subscope_of(a, b)) \/ Yes(is_subscope_of(b, a)))

C6_Witness ==
    \E a \in Scope, b \in Scope, c \in Scope :
        /\ HasParent(a) /\ HasParent(ParentOf(a)) /\ b = ParentOf(ParentOf(a))
        /\ Yes(is_subscope_of(a, b))
        /\ ~Yes(is_subscope_of(b, a))
        /\ Yes(scopes_intersect(b, a))
        /\ HasParent(c) /\ ~Yes(scopes_intersect(a, c))

\* ------------------------------------------------------------------ C8
\* the scopes on the chain from the Node scope of e whose parent is a
\* Destruction scope
TerminatingCandidates(e) ==
    {x \in Superscopes([id |-> e, data |-> Node]) :
        HasParent(x) /\ ParentOf(x).data = Destruction}

\* C8: without an override temporary_scope(e) returns the first scope on the
\* chain from the Node scope of e whose parent is a Destruction scope (never a
\* Destruction scope), None when the chain has none; a Node scope recorded as
\* the child of a Destruction scope is its own temporary scope.
C8_FirstScopeBelowDestruction ==
    \A e \in ItemLocalId :
        rvalue_scopes[e] = None =>
            LET n == [id |-> e, data |-> Node]
                r == temporary_scope(e)
            IN  /\ r.tag = "ret"
                /\ TerminatingCandidates(e) = {} <=> r.val = None
                /\ r.val # None =>
                      /\ r.val[1] \in TerminatingCandidates(e)
                      /\ \A y \in TerminatingCandidates(e) : y \in Superscopes(r.val[1])
                      /\ r.val[1].data # Destruction
                /\ (HasParent(n) /\ ParentOf(n).data = Destruction) => r.val = Some(n)

C8_Witness ==
    \E e \in ItemLocalId, f \in ItemLocalId :
        /\ temporary_scope(e).tag = "ret"
        /\ temporary_scope(e).val # None
        /\ temporary_scope(e).val[1] # [id |-> e, data |-> Node]
        /\ HasParent([id |-> f, data |-> Node])
        /\ temporary_scope(f) = Ret(Some([id |-> f, data |-> Node]), 0)

\* ----------------------------------------------------------------- C10
\* C10: recording a suspension point for a scope leaves, as the record
\* yield_in_scope returns for that scope, the one of the highest
\* expr_and_pat_count among the record kept before and the one recorded,
\* whichever came first, and leaves the records of the other scopes alone.
C10_HighestSequenceIndexKept ==
    [][\A scope \in Scope, data \in YieldData :
          (/\ Called("record_suspension_point")
           /\ call'.scope = scope
           /\ call'.data = data) =>
              LET old == yield_in_scope_of(scope)
                  new == yield_in_scope_of(scope)'
              IN  /\ new # None
                  /\ new[1] = data \/ new = old
                  /\ new[1].expr_and_pat_count >= data.expr_and_pat_count
                  /\ old # None =>
                        new[1].expr_and_pat_count >= old[1].expr_and_pat_count
                  /\ \A other \in Scope \ {scope} :
                        yield_in_scope_of(other)' = yield_in_scope_of(other)]_vars

C10_Witness ==
    /\ call.op = "record_suspension_point"
    /\ yield_in_scope_of(call.scope) # None
    /\ yield_in_scope_of(call.scope)[1].expr_and_pat_count > call.data.expr_and_pat_count

\* ----------------------------------------------------------------- C11
\* C11: record_var_scope(b, scope) fails exactly when b is the id of scope,
\* record_rvalue_scope(e, lifetime) fails exactly when lifetime is Some(scope)
\* and e is the id of scope (never when lifetime is None), and after every step
\* var_map maps no binding to a scope of its own id and rvalue_scopes holds no
\* present override whose scope has the id of its key.
C11_NoSelfReference ==
    [][/\ Called("record_var_scope") =>
              (panicked' <=> call'.var = item_local_id(call'.lifetime))
       /\ Called("record_rvalue_scope") =>
              (panicked' <=> (/\ call'.lifetime # None
                              /\ call'.var = item_local_id(call'.lifetime[1])))
       /\ \A i \in ItemLocalId :
              /\ var_map'[i] # None => item_local_id(var_map'[i][1]) # i
              /\ (rvalue_scopes'[i] # None /\ rvalue_scopes'[i][1] # None) =>
                     item_local_id(rvalue_scopes'[i][1][1]) # i]_vars

C11_Witness ==
    /\ panicked
    /\ call.op = "record_rvalue_scope"
    /\ \E i \in ItemLocalId : var_map[i] # None
    /\ \E i \in ItemLocalId : rvalue_scopes[i] = Some(None)

\* ----------------------------------------------------------------- C12
\* the CallSite scopes on the chain that starts at scope itself
CallSitesAbove(scope) == {x \in Superscopes(scope) : x.data = CallSite}

\* C12: containing_body(scope) returns the id of the first CallSite scope on
\* the chain that starts at scope itself (the id of scope for a CallSite
\* scope), and None when the chain reaches its root without a CallSite scope.
C12_FirstCallSite ==
    \A scope \in Scope :
        LET r == containing_body(scope)
        IN  /\ r.tag = "ret"
            /\ CallSitesAbove(scope) = {} <=> r.val = None
            /\ r.val # None =>
                  \E x \in CallSitesAbove(scope) :
                      /\ r.val = Some(item_local_id(x))
                      /\ \A y \in CallSitesAbove(scope) : y \in Superscopes(x)
            /\ scope.data = CallSite => r = Ret(Some(item_local_id(scope)), 0)

C12_Witness ==
    \E a \in Scope, b \in Scope :
        /\ a.data # CallSite /\ HasParent(a) /\ ParentOf(a).data # CallSite
        /\ containing_body(a).tag = "ret"
        /\ containing_body(a).val # None
        /\ containing_body(a).val # Some(item_local_id(a))
        /\ HasParent(b) /\ containing_body(b).tag = "ret" /\ containing_body(b).val = None

\* ----------------------------------------------------------------- C13
\* the longest chain of parent links in the map
MaxOf(S) ==
    IF S = {} THEN 0
    ELSE LET x == CHOOSE y \in S : \A z \in S : z <= y IN x

TreeDepth == MaxOf({DistanceToRoot(s, Cardinality(Scope)) : s \in Scope})

\* the query ended, by a return or a panic, within `bound` moves along parent links
EndsWithin(r, bound) == r.tag # "diverge" /\ r.steps <= bound

\* every query ends, the walks of one scope within TreeDepth moves and those
\* of two scopes within TreeDepth moves of each
QueriesEnd ==
    /\ \A a \in Scope, b \in Scope :
          /\ EndsWithin(is_subscope_of(a, b), TreeDepth)
          /\ EndsWithin(scopes_intersect(a, b), 2 * TreeDepth)
          /\ EndsWithin(nearest_common_ancestor(a, b), 2 * TreeDepth)
    /\ \A s \in Scope : EndsWithin(containing_body(s), TreeDepth)
    /\ \A e \in ItemLocalId : EndsWithin(temporary_scope(e), TreeDepth)

\* C13 (as stated): after any sequence of successful recording calls every
\* query ends within a number of moves bounded by the tree depth.
C13_QueriesEndAfterAnyCalls == ~panicked => QueriesEnd

\* C13 (amended): it does after recording calls that each kept the walker's
\* contract.
C13_QueriesEndUnderContract == (in_contract /\ ~panicked) => QueriesEnd

C13_Witness ==
    /\ in_contract /\ ~panicked
    /\ TreeDepth >= 2
    /\ \E a \in Scope, b \in Scope : is_subscope_of(a, b) = Ret(TRUE, TreeDepth)
    /\ \E a \in Scope, b \in Scope :
          /\ nearest_common_ancestor(a, b).tag = "ret"
          /\ nearest_common_ancestor(a, b).steps >= 1


\* ----------------------------------------------------------------- C14
\* s occurs in parent_map, as a child or as a parent
Occurs(s) == HasParent(s) \/ \E c \in Scope : HasParent(c) /\ ParentOf(c) = s

\* C14 (as stated): nearest_common_ancestor(a, b) never aborts for scopes a
\* and b that occur in a parent_map recorded under the walker's contract, in
\* different trees included.
C14_NeverAborts ==
    \A a \in Scope, b \in Scope :
        (Occurs(a) /\ Occurs(b)) => nearest_common_ancestor(a, b).tag # "panic"

\* C14 (amended): for such a and b the `parent_a_depth != 0` assertion never
\* fires, and an unwrap of a missing parent entry fires exactly when a and b
\* both have a parent and have no common superscope.
C14_AbortsIffNoCommonSuperscope ==
    \A a \in Scope, b \in Scope :
        (Occurs(a) /\ Occurs(b)) =>
            LET r == nearest_common_ancestor(a, b)
            IN  /\ r.tag \in {"ret", "panic"}
                /\ r # Panic(0)
                /\ r.tag = "panic" <=>
                      (HasParent(a) /\ HasParent(b) /\ CommonSuperscopes(a, b) = {})

C14_Witness ==
    \E a \in Scope, b \in Scope, c \in Scope :
        /\ HasParent(a) /\ HasParent(b) /\ HasParent(c)
        /\ CommonSuperscopes(a, b) = {}
        /\ nearest_common_ancestor(a, b).tag = "panic"
        /\ c # a /\ ParentOf(c) = ParentOf(a)
        /\ nearest_common_ancestor(a, c) = Ret(ParentOf(a), 2)


\* ----------------------------------------------------------------- C15
\* C15: parent links are write-once. In every step of a recording operation
\* that succeeds, a successful record_scope_parent(child, (parent, d)) makes
\* opt_encl_scope(child) = Some(parent), no existing parent_map entry is
\* changed or removed, and a scope gets an entry only by being the child of a
\* record_scope_parent call that names a parent; so a scope never recorded as
\* a child has opt_encl_scope = None.
C15_ParentLinksWriteOnce ==
    [][~panicked' =>
          \A s \in Scope :
              /\ (Called("record_scope_parent") /\ call'.child = s /\ call'.parent # None) =>
                     opt_encl_scope(s)' = Some(call'.parent[1])
              /\ HasParent(s) =>
                     /\ parent_map'[s] = parent_map[s]
                     /\ opt_encl_scope(s)' = Some(ParentOf(s))
              /\ (~HasParent(s) /\ ~(/\ Called("record_scope_parent")
                                     /\ call'.child = s
                                     /\ call'.parent # None)) =>
                     opt_encl_scope(s)' = None]_vars

C15_Witness ==
    /\ ~panicked
    /\ ncalls = MaxCalls
    /\ call.op \in {"record_var_scope", "record_rvalue_scope", "record_closure_parent"}
    /\ \E s \in Scope, t \in Scope :
          /\ s # t
          /\ HasParent(s) /\ HasParent(t)
          /\ opt_encl_scope(s) = Some(ParentOf(s))

====
